---- MODULE Spec2Model ----
(***************************************************************************)
(* Emotive speech pipeline of Smart-Assistant-MJ: voice/tts.py,            *)
(* voice/giggle_cache.py and the turn loop of main.py.                     *)
(*                                                                         *)
(* Units.  Samples are integers on an amplitude grid.  Semitones are kept  *)
(* in tenths (pitch_shift 1.5 is 15), speed and volume factors in          *)
(* hundredths (1.08 is 108), resampling factors as a ratio num/den.        *)
(* Text is a sequence of symbols: the punctuation and blank characters are *)
(* single symbols, a word is one opaque symbol.                            *)
(***************************************************************************)
EXTENDS Integers, Sequences, FiniteSets, TLC

VARIABLES
    \* ---- waveform / text effects (tts.py stages called on their own) ----
    fxAudio,      \* waveform the stage receives
    fxOut,        \* waveform the stage returns
    fxText,       \* text the stage receives
    fxTextOut,    \* text the stage returns
    fxEmotion,    \* emotion id of the request
    fxOp,         \* "init" or the stage that ran
    fxArg,        \* numeric argument of the stage (semitones, speed factor)
    fxProfile     \* lookup site -> profile the stage got there

fxVars == <<fxAudio, fxOut, fxText, fxTextOut, fxEmotion, fxOp, fxArg, fxProfile>>

VARIABLES
    \* ---- add_breathing_sounds (tts.py), one call ----
    bsLen,        \* len(audio_data)
    bsStereo,     \* audio_data is a two-channel (2-D) array
    bsPc,         \* "start", "scan", "limit", "done"
    bsI,          \* loop variable i of the window scan
    bsLast,       \* last_insert
    bsPositions,  \* insert_positions
    bsApplied,    \* positions at which breathing_audio carries a breath
    bsRaised      \* the except clause returned audio_data

bsVars == <<bsLen, bsStereo, bsPc, bsI, bsLast, bsPositions, bsApplied, bsRaised>>

VARIABLES
    \* ---- giggle cache (giggle_cache.py) and play_giggle (tts.py) ----
    nPhrases,     \* len(_load_giggle_phrases()): phrases the templates file configures
    files,        \* cache key -> "absent", "partial" (being written or cut short), "full"
    bld,          \* per thread: the build_giggle_cache call it is running
    fg,           \* the foreground call: play_giggle, play_random_giggle or a build
    builtOK,      \* language -> a build of it has completed without a failed item
    faults,       \* failures of collaborators so far
    calls         \* foreground calls so far

cacheVars == <<nPhrases, files, bld, fg, builtOK, faults, calls>>

VARIABLES
    \* ---- speak / speak_async (tts.py) ----
    CONSOLE_ECHO, \* console_echo of brain.json
    sp            \* the speak call in progress, or the last one

speakVars == <<CONSOLE_ECHO, sp>>

VARIABLES
    \* ---- the turn loop (main.py) ----
    lp,           \* the main thread: position in the loop and the turn's data
    warm          \* the warm-up thread: "none", "running", "done", "died"

loopVars == <<lp, warm>>

vars == <<fxVars, bsVars, cacheVars, speakVars, loopVars>>

\* the variables outside each part of the model
notFx == <<bsVars, cacheVars, speakVars, loopVars>>
notBs == <<fxVars, cacheVars, speakVars, loopVars>>
notCache == <<fxVars, bsVars, speakVars, loopVars>>
notSpeak == <<fxVars, bsVars, cacheVars, loopVars>>
notLoop == <<fxVars, bsVars, cacheVars, speakVars>>

-----------------------------------------------------------------------------
(* Bounds of the model *)

MaxLen == 3          \* longest input waveform of the stage calls
MaxSample == 1       \* input samples range over 0..MaxSample
SampleRate == 10     \* samples per second of the decoded audio
MaxTextLen == 3      \* longest input text, in symbols
MaxAudioLen == 160   \* longest waveform given to add_breathing_sounds
MaxPhrases == 3      \* most giggle phrases the templates file configures
MaxFaults == 1       \* most collaborator failures in one run
MaxCalls == 2        \* most foreground calls in one run

-----------------------------------------------------------------------------
(* Emotion profile table *)

EmotionIds ==
    {"neutral", "happy", "sad", "excited", "angry", "flirty", "tender",
     "playful", "whisper", "surprised", "confused", "sarcastic"}

\* ids a caller can pass that the table does not know (brain/emotion.py)
UnknownIds == {"normal", "late_night"}

Emotions == EmotionIds \cup UnknownIds

Profile(ps, sf, vb, g, s, tm, vs) ==
    [pitch_shift |-> ps, speed_factor |-> sf, volume_boost |-> vb,
     add_giggle |-> g, add_sigh |-> s, text_modifiers |-> tm, voice_style |-> vs]

EMOTION_PARAMS ==
    [e \in EmotionIds |->
       CASE e = "neutral"   -> Profile(0, 100, 100, FALSE, FALSE, <<>>, "neutral")
         [] e = "happy"     -> Profile(15, 108, 110, TRUE, FALSE,
                                       <<"!", "emoji_smile", "yay">>, "cheerful")
         [] e = "sad"       -> Profile(-10, 92, 90, FALSE, TRUE,
                                       <<"...", "emoji_cry", "oh">>, "calm")
         [] e = "excited"   -> Profile(20, 115, 120, TRUE, FALSE,
                                       <<"!!!", "emoji_grin", "wow", "amazing">>, "excited")
         [] e = "angry"     -> Profile(-5, 110, 130, FALSE, FALSE,
                                       <<"!", "grrr", "emoji_angry">>, "angry")
         [] e = "flirty"    -> Profile(12, 95, 105, TRUE, FALSE,
                                       <<"emoji_kiss", "darling", "sweetie", "mmm">>, "seductive")
         [] e = "tender"    -> Profile(-3, 88, 95, FALSE, TRUE,
                                       <<"...", "dear", "sweetheart", "emoji_hearteyes">>, "gentle")
         [] e = "playful"   -> Profile(18, 112, 115, TRUE, FALSE,
                                       <<"emoji_tongue", "teehee", "hehe", "playful">>, "playful")
         [] e = "whisper"   -> Profile(-20, 85, 40, FALSE, FALSE,
                                       <<"...", "shh">>, "whispering")
         [] e = "surprised" -> Profile(25, 120, 125, FALSE, FALSE,
                                       <<"!!!", "wow", "oh my", "emoji_astonished">>, "surprised")
         [] e = "confused"  -> Profile(5, 90, 95, FALSE, TRUE,
                                       <<"?", "umm", "huh", "emoji_confused">>, "confused")
         [] e = "sarcastic" -> Profile(-8, 95, 110, FALSE, FALSE,
                                       <<"sure", "right", "oh please", "emoji_smirk">>, "sarcastic")]

\* what a raising lookup leaves in place of a profile
KeyError == [error |-> "KeyError"]

Raised(params) == "error" \in DOMAIN params

\* dict.get(key, default): the value under key when the key is present
DictGet(d, key, default) == IF key \in DOMAIN d THEN d[key] ELSE default

EmotionGetNoDefault(emotion) == DictGet(EMOTION_PARAMS, emotion, KeyError)

\* EMOTION_PARAMS.get(emotion, EMOTION_PARAMS["neutral"])
EmotionGet(emotion) == DictGet(EMOTION_PARAMS, emotion, EMOTION_PARAMS["neutral"])

-----------------------------------------------------------------------------
(* Resampling: shift_pitch and change_speed *)

\* int(x): truncation of a non-negative quotient a/b
IntDivUp(a, b) == (a + b - 1) \div b

IntDiv(a, b) == a \div b

\* nearest grid value of a/b (the cast of the interpolated value to a sample)
RoundDiv(a, b) == (2 * a + b) \div (2 * b)

\* 2 ** (semitones / 12.0) in thousandths, semitones in tenths
PitchFactor1000(s10) ==
    CASE s10 = 0    -> 1000
      [] s10 = 120  -> 2000
      [] s10 = -120 -> 500
      [] s10 = 15   -> 1091
      [] s10 = -10  -> 944
      [] s10 = 20   -> 1122
      [] s10 = -5   -> 972
      [] s10 = 12   -> 1072
      [] s10 = -3   -> 983
      [] s10 = 18   -> 1110
      [] s10 = -20  -> 891
      [] s10 = 25   -> 1155
      [] s10 = 5    -> 1029
      [] s10 = -8   -> 955

InterpIndexOff(xn, xd, fp) ==
    LET j == xn \div xd
    IN  IF j >= Len(fp) - 1 THEN fp[Len(fp)] ELSE fp[j + 2]

\* np.interp(x, np.arange(len(fp)), fp) at x = xn/xd, for a non-empty fp
Interp(xn, xd, fp) ==
    LET j == xn \div xd
        r == xn % xd
    IN  IF j >= Len(fp) - 1 THEN fp[Len(fp)]
        ELSE fp[j + 1] + RoundDiv((fp[j + 2] - fp[j + 1]) * r, xd)

\* new_length = int(len / factor); indices = arange(new_length) * factor;
\* np.interp(indices, arange(len), audio), factor = num/den
Resample(audio_data, num, den) ==
    LET new_length == IntDiv(Len(audio_data) * den, num)
    IN  [k \in 1..new_length |-> Interp((k - 1) * num, den, audio_data)]

\* np.interp raises on an empty array of sample points
InterpRaises(audio_data) == Len(audio_data) = 0

shift_pitch(audio_data, samplerate, semitones) ==
    IF InterpRaises(audio_data) THEN audio_data
    ELSE Resample(audio_data, PitchFactor1000(semitones), 1000)

change_speed(audio_data, speed_factor) ==
    IF speed_factor = 0 \/ InterpRaises(audio_data) THEN audio_data
    ELSE Resample(audio_data, speed_factor, 100)

\* audio_data * volume_boost
ScaleVolume(audio_data, vb) ==
    [k \in 1..Len(audio_data) |-> RoundDiv(audio_data[k] * vb, 100)]

apply_emotional_modifications(audio_data, samplerate, emotion) ==
    LET params == EmotionGet(emotion)
        a1 == IF params.volume_boost # 100
              THEN ScaleVolume(audio_data, params.volume_boost) ELSE audio_data
        a2 == IF params.pitch_shift # 0
              THEN shift_pitch(a1, samplerate, params.pitch_shift) ELSE a1
        a3 == IF params.speed_factor # 100
              THEN change_speed(a2, params.speed_factor) ELSE a2
    IN  IF Raised(params) THEN audio_data ELSE a3

-----------------------------------------------------------------------------
(* Paralinguistic overlays *)

Zeros(n) == [k \in 1..n |-> 0]

\* a synthesized overlay of n samples; the generated tone and noise are
\* written as one amplitude mark per overlay kind
Tone(n, mark) == [k \in 1..n |-> mark]

\* envelope[:fade] = linspace(0, 1, fade); envelope[-fade:] = linspace(1, 0, fade)
\* on an array of n samples: the slice assignment raises when the shapes differ
EnvelopeRaises(n, fadeIn, fadeOut) ==
    \/ fadeIn > n
    \/ fadeOut > n
    \/ fadeOut = 0 /\ n > 0

add_giggle_effect_skipped(audio_data, samplerate) == audio_data

add_giggle_effect(audio_data, samplerate) ==
    LET giggle_samples == IntDiv(8 * samplerate, 10)
        fade_samples == IntDiv(samplerate, 10)
        pause_samples == IntDiv(2 * samplerate, 10)
    IN  IF EnvelopeRaises(giggle_samples, fade_samples, fade_samples)
        THEN audio_data
        ELSE audio_data \o Zeros(pause_samples) \o Tone(giggle_samples, 3)

add_sigh_effect_no_pause(audio_data, samplerate) ==
    audio_data \o Tone(IntDiv(12 * samplerate, 10), 4)

add_sigh_effect(audio_data, samplerate) ==
    LET sigh_samples == IntDiv(12 * samplerate, 10)
        attack_samples == IntDiv(3 * samplerate, 10)
        decay_samples == IntDiv(4 * samplerate, 10)
        pause_samples == IntDiv(3 * samplerate, 10)
    IN  IF EnvelopeRaises(sigh_samples, attack_samples, decay_samples)
        THEN audio_data
        ELSE audio_data \o Zeros(pause_samples) \o Tone(sigh_samples, 4)

\* duration = random.uniform(0.5, 1.5), drawn in tenths of a second
LaughDurations == 5..15

LaughEmotions == {"happy", "playful", "flirty", "excited"}

create_emotional_laugh(samplerate, emotion, duration10) ==
    LET samples == IntDiv(duration10 * samplerate, 10)
        fade_samples == IntDiv(samplerate, 10)
    IN  IF EnvelopeRaises(samples, fade_samples, fade_samples)
        THEN <<>>
        ELSE Tone(samples, 5)

\* draw: random.random() < 0.6
add_emotional_laughter(audio_data, samplerate, emotion, draw, duration10) ==
    LET params == EmotionGet(emotion)
        laugh == create_emotional_laugh(samplerate, emotion, duration10)
        pause_samples == IntDiv(15 * samplerate, 100)
    IN  IF Raised(params) THEN audio_data
        ELSE IF emotion \in LaughEmotions /\ draw /\ Len(laugh) > 0
             THEN audio_data \o Zeros(pause_samples) \o laugh
             ELSE audio_data

add_emotional_sounds(audio_data, samplerate, emotion, draw, duration10) ==
    LET params == EmotionGet(emotion)
        a1 == IF params.add_giggle
              THEN add_giggle_effect(audio_data, samplerate) ELSE audio_data
        a2 == IF params.add_sigh THEN add_sigh_effect(a1, samplerate) ELSE a1
    IN  IF Raised(params) THEN audio_data
        ELSE add_emotional_laughter(a2, samplerate, emotion, draw, duration10)

-----------------------------------------------------------------------------
(* Text embellishment: modifier injection *)

Blank == " "

\* symbols of the spoken tokens: punctuation tokens are runs of characters,
\* a word or an emoji is one symbol, a two-word token has a blank inside
TokenSyms(tok) ==
    CASE tok = "!"         -> <<"!">>
      [] tok = "!!!"       -> <<"!", "!", "!">>
      [] tok = "?"         -> <<"?">>
      [] tok = "..."       -> <<".", ".", ".">>
      [] tok = "oh my"     -> <<"oh", Blank, "my">>
      [] tok = "oh please" -> <<"oh", Blank, "please">>
      [] OTHER             -> <<tok>>

PunctuationModifiers == {"!", "!!!", "?"}

AppendedModifiers ==
    {"...", "emoji_smile", "emoji_cry", "emoji_grin", "emoji_angry", "emoji_kiss",
     "emoji_hearteyes", "emoji_tongue", "emoji_astonished", "emoji_confused",
     "emoji_smirk"}

RECURSIVE RStrip(_, _)
\* str.rstrip(chars)
RStrip(text, chars) ==
    IF Len(text) > 0 /\ text[Len(text)] \in chars
    THEN RStrip(SubSeq(text, 1, Len(text) - 1), chars)
    ELSE text

RECURSIVE Split(_)
\* str.split(): the maximal runs of non-blank symbols
Split(text) ==
    IF Len(text) = 0 THEN <<>>
    ELSE IF text[1] = Blank THEN Split(Tail(text))
    ELSE LET rest == Split(Tail(text))
         IN  IF Len(text) > 1 /\ text[2] # Blank
             THEN <<(<<text[1]>> \o Head(rest))>> \o Tail(rest)
             ELSE <<(<<text[1]>>)>> \o rest

RECURSIVE Join(_)
\* " ".join(words)
Join(words) ==
    IF Len(words) = 0 THEN <<>>
    ELSE IF Len(words) = 1 THEN words[1]
    ELSE words[1] \o <<Blank>> \o Join(Tail(words))

\* list.insert(pos, x), pos counted from 0
ListInsert(words, pos, x) ==
    SubSeq(words, 1, pos) \o <<x>> \o SubSeq(words, pos + 1, Len(words))

\* draw: random.random() < 0.3; modifier: random.choice(modifiers);
\* pos: random.randint(0, len(words) - 1)
add_emotional_text_modifiers(text, emotion, draw, modifier, pos) ==
    LET params == EmotionGet(emotion)
        words == Split(text)
    IN  IF Raised(params) THEN text
        ELSE IF Len(params.text_modifiers) = 0 \/ ~draw THEN text
        ELSE IF modifier \in PunctuationModifiers
             THEN RStrip(text, {".", "!", "?"}) \o TokenSyms(modifier)
        ELSE IF modifier \in AppendedModifiers
             THEN text \o <<Blank>> \o TokenSyms(modifier)
        ELSE IF Len(words) > 1
             THEN Join(ListInsert(words, pos, TokenSyms(modifier)))
        ELSE text

\* the values random.randint(0, len(words) - 1) can take (0 when unused)
InsertPositions(text) ==
    IF Len(Split(text)) > 1 THEN 0..(Len(Split(text)) - 1) ELSE {0}

\* the values random.choice(modifiers) can take
ModifierChoices(emotion) ==
    LET params == EmotionGet(emotion)
    IN  IF Raised(params) \/ Len(params.text_modifiers) = 0 THEN {"none"}
        ELSE {params.text_modifiers[k] : k \in 1..Len(params.text_modifiers)}

\* place of the chosen modifier in the profile's list, from 1 (0: no list)
ModifierIndex(emotion, modifier) ==
    LET params == EmotionGet(emotion)
    IN  IF Raised(params) \/ Len(params.text_modifiers) = 0 THEN 0
        ELSE CHOOSE k \in 1..Len(params.text_modifiers) : params.text_modifiers[k] = modifier

-----------------------------------------------------------------------------
(* Text embellishment: breathing markup, add_breathing_pauses(text)        *)
(* A pause directive '<break time="..."/>' is one symbol: it holds no      *)
(* '.', ',', '!' or '?', and its one blank follows a letter, so no pattern *)
(* of the function matches inside it.                                      *)

\* the directive '<break time="{ms}ms"/>'
Break(ms) ==
    CASE ms = 150 -> "<break 150ms>"
      [] ms = 200 -> "<break 200ms>"
      [] ms = 300 -> "<break 300ms>"
      [] ms = 400 -> "<break 400ms>"

RECURSIVE ReSubCharDrop(_, _, _)
ReSubCharDrop(text, c, repl) ==
    IF text = <<>> THEN <<>>
    ELSE (IF Head(text) = c THEN Tail(repl) ELSE <<Head(text)>>)
             \o ReSubCharDrop(Tail(text), c, repl)

RECURSIVE ReSubChar(_, _, _)
\* re.sub(c, repl, text) for a pattern that is the one character c
ReSubChar(text, c, repl) ==
    IF text = <<>> THEN <<>>
    ELSE (IF Head(text) = c THEN repl ELSE <<Head(text)>>)
             \o ReSubChar(Tail(text), c, repl)

\* last index of the run of blanks that starts at k
RunEnd(text, k) ==
    CHOOSE m \in k..Len(text) :
        /\ \A j \in k..m : text[j] = Blank
        /\ m = Len(text) \/ text[m + 1] # Blank

RECURSIVE ReSubSentenceGap(_, _)
\* re.sub(r'(?<=[.!?])\s+', ' <break time="150ms"/> ', text) from index k on:
\* a run of blanks right after '.', '!' or '?' is replaced as a whole
ReSubSentenceGap(text, k) ==
    IF k > Len(text) THEN <<>>
    ELSE IF text[k] = Blank /\ k > 1 /\ text[k - 1] \in {".", "!", "?"}
         THEN <<Blank, Break(150), Blank>> \o ReSubSentenceGap(text, RunEnd(text, k) + 1)
         ELSE <<text[k]>> \o ReSubSentenceGap(text, k + 1)

add_breathing_pauses(text) ==
    LET t1 == ReSubChar(text, ".", <<".", Blank, Break(300)>>)
        t2 == ReSubChar(t1, ",", <<",", Blank, Break(200)>>)
        t3 == ReSubChar(t2, "!", <<"!", Blank, Break(400)>>)
        t4 == ReSubChar(t3, "?", <<"?", Blank, Break(400)>>)
    IN  ReSubSentenceGap(t4, 1)

-----------------------------------------------------------------------------
(* The stages called on their own: one call per behaviour *)

Waveforms == UNION {[1..n -> 0..MaxSample] : n \in 0..MaxLen}

TextSyms == {"w", Blank, ".", ",", "!", "?"}

Texts == UNION {[1..n -> TextSyms] : n \in 0..MaxTextLen}

\* semitone arguments: the profiles' values and a whole octave up and down
PitchInputs == {EMOTION_PARAMS[e].pitch_shift : e \in EmotionIds} \cup {120, -120}

\* speed arguments: the profiles' values, half and double speed
SpeedInputs == {EMOTION_PARAMS[e].speed_factor : e \in EmotionIds} \cup {50, 200}

NoLookup == [site \in {} |-> KeyError]

FxInit ==
    /\ \/ fxAudio \in Waveforms /\ fxText = <<>>
       \/ fxAudio = <<>> /\ fxText \in Texts
    /\ fxEmotion \in Emotions
    /\ fxOut = <<>>
    /\ fxTextOut = <<>>
    /\ fxOp = "init"
    /\ fxArg = 0
    /\ fxProfile = NoLookup

\* no stage call in progress
FxIdle ==
    /\ fxAudio = <<>>
    /\ fxText = <<>>
    /\ fxEmotion = "neutral"
    /\ fxOut = <<>>
    /\ fxTextOut = <<>>
    /\ fxOp = "idle"
    /\ fxArg = 0
    /\ fxProfile = NoLookup

ShiftPitchCall ==
    /\ fxOp = "init"
    /\ \E semitones \in PitchInputs :
         /\ fxArg' = semitones
         /\ fxOut' = shift_pitch(fxAudio, SampleRate, semitones)
    /\ fxOp' = "shift_pitch"
    /\ UNCHANGED <<fxAudio, fxText, fxTextOut, fxEmotion, fxProfile>>
    /\ UNCHANGED notFx

ChangeSpeedCall ==
    /\ fxOp = "init"
    /\ \E speed_factor \in SpeedInputs :
         /\ fxArg' = speed_factor
         /\ fxOut' = change_speed(fxAudio, speed_factor)
    /\ fxOp' = "change_speed"
    /\ UNCHANGED <<fxAudio, fxText, fxTextOut, fxEmotion, fxProfile>>
    /\ UNCHANGED notFx

\* shift_pitch by a whole octave up, then by a whole octave down on its result
ShiftPitchRoundTripCall ==
    /\ fxOp = "init"
    /\ fxArg' = 120
    /\ fxOut' = shift_pitch(shift_pitch(fxAudio, SampleRate, 120), SampleRate, -120)
    /\ fxOp' = "shift_pitch_round_trip"
    /\ UNCHANGED <<fxAudio, fxText, fxTextOut, fxEmotion, fxProfile>>
    /\ UNCHANGED notFx

ApplyEmotionalModificationsCall ==
    /\ fxOp = "init"
    /\ fxOut' = apply_emotional_modifications(fxAudio, SampleRate, fxEmotion)
    /\ fxProfile' = [site \in {"audio_modification"} |-> EmotionGet(fxEmotion)]
    /\ fxOp' = "apply_emotional_modifications"
    /\ UNCHANGED <<fxAudio, fxText, fxTextOut, fxEmotion, fxArg>>
    /\ UNCHANGED notFx

AddEmotionalTextModifiersCall ==
    /\ fxOp = "init"
    /\ \E draw \in BOOLEAN, modifier \in ModifierChoices(fxEmotion),
          pos \in InsertPositions(fxText) :
         /\ fxArg' = IF draw THEN ModifierIndex(fxEmotion, modifier) ELSE 0
         /\ fxTextOut' = add_emotional_text_modifiers(fxText, fxEmotion, draw, modifier, pos)
    /\ fxProfile' = [site \in {"text_modifiers"} |-> EmotionGet(fxEmotion)]
    /\ fxOp' = "add_emotional_text_modifiers"
    /\ UNCHANGED <<fxAudio, fxOut, fxText, fxEmotion>>
    /\ UNCHANGED notFx

AddBreathingPausesCall ==
    /\ fxOp = "init"
    /\ fxTextOut' = add_breathing_pauses(fxText)
    /\ fxOp' = "add_breathing_pauses"
    /\ UNCHANGED <<fxAudio, fxOut, fxText, fxEmotion, fxArg, fxProfile>>
    /\ UNCHANGED notFx

AddEmotionalLaughterCall ==
    /\ fxOp = "init"
    /\ \E draw \in BOOLEAN, duration10 \in LaughDurations :
         /\ fxArg' = IF draw THEN duration10 ELSE 0
         /\ fxOut' = add_emotional_laughter(fxAudio, SampleRate, fxEmotion, draw, duration10)
    /\ fxProfile' = [site \in {"laughter"} |-> EmotionGet(fxEmotion)]
    /\ fxOp' = "add_emotional_laughter"
    /\ UNCHANGED <<fxAudio, fxText, fxTextOut, fxEmotion>>
    /\ UNCHANGED notFx

AddEmotionalSoundsCall ==
    /\ fxOp = "init"
    /\ \E draw \in BOOLEAN, duration10 \in LaughDurations :
         /\ fxArg' = IF draw THEN duration10 ELSE 0
         /\ fxOut' = add_emotional_sounds(fxAudio, SampleRate, fxEmotion, draw, duration10)
    /\ fxProfile' = [site \in {"emotional_sounds", "laughter"} |-> EmotionGet(fxEmotion)]
    /\ fxOp' = "add_emotional_sounds"
    /\ UNCHANGED <<fxAudio, fxText, fxTextOut, fxEmotion>>
    /\ UNCHANGED notFx

FxNext ==
    \/ ShiftPitchCall
    \/ ChangeSpeedCall
    \/ ShiftPitchRoundTripCall
    \/ ApplyEmotionalModificationsCall
    \/ AddEmotionalTextModifiersCall
    \/ AddBreathingPausesCall
    \/ AddEmotionalLaughterCall
    \/ AddEmotionalSoundsCall

-----------------------------------------------------------------------------
(* Breath insertion: add_breathing_sounds(audio_data, samplerate)          *)
(* The scan reads the waveform window by window; whether the window it     *)
(* reads is quiet (peak below the threshold) is drawn as the scan reads it. *)

breath_samples == IntDiv(4 * SampleRate, 10)
breath_fade_samples == IntDiv(15 * SampleRate, 100)
window_size == IntDiv(8 * SampleRate, 10)
min_distance == 2 * SampleRate
scan_step == window_size \div 2

FarEnoughAlways(i, last_insert) == TRUE

\* (i - last_insert) > min_distance
FarEnough(i, last_insert) == (i - last_insert) > min_distance

\* insert_pos + len(breath_sound) < len(breathing_audio)
BreathFits(pos, length) == pos + breath_samples < length

\* breathing_audio[pos:pos+n] += breath_sound * 0.25 raises when a
\* one-dimensional breath cannot be broadcast onto a two-channel slice
AddBreathRaises(stereo) == stereo /\ breath_samples \notin {1, 2}

\* seq[::k]
Stride(seq, k) == [j \in 1..((Len(seq) + k - 1) \div k) |-> seq[1 + (j - 1) * k]]

\* seq[:n]
Take(seq, n) == SubSeq(seq, 1, IF Len(seq) < n THEN Len(seq) ELSE n)

\* insert_positions[::len(insert_positions)//3][:3]
KeepPositions(insert_positions) ==
    Take(Stride(insert_positions, Len(insert_positions) \div 3), 3)

Range(seq) == {seq[k] : k \in 1..Len(seq)}

BsInit ==
    /\ bsLen \in 0..MaxAudioLen
    /\ bsStereo \in BOOLEAN
    /\ bsPc = "start"
    /\ bsI = 0
    /\ bsLast = 0
    /\ bsPositions = <<>>
    /\ bsApplied = {}
    /\ bsRaised = FALSE

\* no call in progress
BsIdle ==
    /\ bsLen = 0
    /\ bsStereo = FALSE
    /\ bsPc = "idle"
    /\ bsI = 0
    /\ bsLast = 0
    /\ bsPositions = <<>>
    /\ bsApplied = {}
    /\ bsRaised = FALSE

\* lines 34-55: the breath and its envelope, the copy, the scan parameters
BreathStart ==
    /\ bsPc = "start"
    /\ IF \/ EnvelopeRaises(breath_samples, breath_fade_samples, breath_fade_samples)
          \/ scan_step = 0
       THEN /\ bsPc' = "done"
            /\ bsRaised' = TRUE
            /\ UNCHANGED <<bsI, bsLast>>
       ELSE /\ bsPc' = "scan"
            /\ bsI' = window_size
            /\ bsLast' = -min_distance
            /\ UNCHANGED bsRaised
    /\ UNCHANGED <<bsLen, bsStereo, bsPositions, bsApplied>>
    /\ UNCHANGED notBs

\* one iteration of the loop of lines 57-65
BreathScanStep ==
    /\ bsPc = "scan"
    /\ bsI < bsLen - window_size
    /\ \E quiet \in BOOLEAN :
         LET insert_pos == bsI + window_size \div 2
         IN  IF quiet /\ FarEnough(bsI, bsLast) /\ BreathFits(insert_pos, bsLen)
             THEN IF AddBreathRaises(bsStereo)
                  THEN /\ bsPc' = "done"
                       /\ bsRaised' = TRUE
                       /\ bsApplied' = {}
                       /\ UNCHANGED <<bsI, bsLast, bsPositions>>
                  ELSE /\ bsApplied' = bsApplied \cup {insert_pos}
                       /\ bsLast' = insert_pos
                       /\ bsPositions' = Append(bsPositions, insert_pos)
                       /\ bsI' = bsI + scan_step
                       /\ UNCHANGED <<bsPc, bsRaised>>
             ELSE /\ bsI' = bsI + scan_step
                  /\ UNCHANGED <<bsPc, bsRaised, bsApplied, bsLast, bsPositions>>
    /\ UNCHANGED <<bsLen, bsStereo>>
    /\ UNCHANGED notBs

\* lines 67-77: the limit to three breaths, and the return
BreathLimit ==
    /\ bsPc = "scan"
    /\ ~(bsI < bsLen - window_size)
    /\ bsApplied' = IF Len(bsPositions) > 3
                    THEN {pos \in Range(KeepPositions(bsPositions)) : BreathFits(pos, bsLen)}
                    ELSE bsApplied
    /\ bsPc' = "done"
    /\ UNCHANGED <<bsLen, bsStereo, bsI, bsLast, bsPositions, bsRaised>>
    /\ UNCHANGED notBs

BsNext ==
    \/ BreathStart
    \/ BreathScanStep
    \/ BreathLimit

-----------------------------------------------------------------------------
(* Giggle cache: giggle_cache.py, and play_giggle of tts.py                *)

\* languages of the cache.  giggle_cache.py tells languages apart by the file
\* name and by `lang in ("hi", "hinglish")` (lines 41, 86), which picks the
\* voice: "hi" is the language of the warm-up and stands on one side of that
\* test, "en" on the other; "hinglish" behaves as "hi" with names of its own
Langs == {"hi", "en"}

\* variants=3, the default of _paths_for and build_giggle_cache
Variants == 3

Threads == {"bg", "fg"}

\* giggle_{lang}_{i}_{v}.wav under GIGGLE_DIR
PathOf(lang, i, v) == <<lang, i, v>>

AllPaths == Langs \X (0..(MaxPhrases - 1)) \X (0..(Variants - 1))

\* the paths _paths_for(lang) lists, all phrases and variants together
CandidatePaths(lang) ==
    {PathOf(lang, i, v) : i \in 0..(nPhrases - 1), v \in 0..(Variants - 1)}

\* os.path.exists(path)
PathExists(path) == files[path] # "absent"

\* existing = [p for p in candidate_paths if os.path.exists(p)]
Existing(lang) == {path \in CandidatePaths(lang) : PathExists(path)}

\* phrases, paths = _paths_for(lang): the two-name unpacking of the list of
\* per-phrase pairs raises ValueError unless the list has exactly two items
UnpackRaises(n) == n # 2

NoBuild ==
    [pc |-> "idle", lang |-> "hi", i |-> 0, v |-> 0, synth |-> FALSE, wrote |-> FALSE,
     clean |-> TRUE, second |-> FALSE, clobbered |-> FALSE, failed |-> 0,
     tmp |-> FALSE, orphaned |-> FALSE]

NoCall ==
    [op |-> "none", pc |-> "idle", lang |-> "hi", path |-> <<>>, seqLeft |-> 0,
     live |-> 0, played |-> "none", readState |-> "none", hadEntry |-> FALSE,
     emptyAtCall |-> FALSE, afterWarmUp |-> FALSE, prgRaised |-> FALSE,
     built |-> FALSE, tmpLeft |-> FALSE, result |-> "none"]

CacheInit ==
    /\ nPhrases \in 1..MaxPhrases
    /\ files = [path \in AllPaths |-> "absent"]
    /\ bld = [t \in Threads |-> NoBuild]
    /\ fg = NoCall
    /\ builtOK = [l \in Langs |-> FALSE]
    /\ faults = 0
    /\ calls = 0

\* nothing of the cache is running
CacheIdle ==
    /\ nPhrases = 3
    /\ files = [path \in AllPaths |-> "absent"]
    /\ bld = [t \in Threads |-> NoBuild]
    /\ fg = NoCall
    /\ builtOK = [l \in Langs |-> FALSE]
    /\ faults = 0
    /\ calls = 0

CanFail == faults < MaxFaults

\* ---- build_giggle_cache(lang), run by thread t ----

StartBuild(lang) ==
    [NoBuild EXCEPT !.pc = "check", !.lang = lang, !.second = builtOK[lang]]

\* the item after (i, v) in the two nested loops; a temporary file that
\* still exists is not looked at again (tmp is assigned anew at line 51)
NextItem(b) ==
    LET c == [b EXCEPT !.pc = "check", !.clobbered = FALSE, !.tmp = FALSE,
                       !.orphaned = b.orphaned \/ b.tmp]
    IN  IF b.v + 1 < Variants
        THEN [c EXCEPT !.v = b.v + 1]
        ELSE [c EXCEPT !.i = b.i + 1, !.v = 0]

SkipFailedReturns(b) ==
    [b EXCEPT !.pc = "done", !.clean = FALSE, !.failed = b.failed + 1]

\* lines 61-65: the except clause removes tmp and the loop goes on with the
\* next item
SkipFailed(b) ==
    [NextItem([b EXCEPT !.tmp = FALSE]) EXCEPT !.clean = FALSE, !.failed = b.failed + 1]

BuildSkipsNever(path) == FALSE

\* line 44: an item whose path exists is skipped
BuildSkips(path) == PathExists(path)

\* another thread is between opening and closing the same path
OtherWriter(t, path) ==
    \E u \in Threads \ {t} :
        bld[u].pc = "close" /\ PathOf(bld[u].lang, bld[u].i, bld[u].v) = path

\* lines 42-59 for one item: skip an existing path, else make the temporary
\* file, synthesize and decode
BuildCheck(t) ==
    /\ bld[t].pc = "check"
    /\ LET b == bld[t]
           path == PathOf(b.lang, b.i, b.v)
       IN  IF b.i >= nPhrases
           THEN /\ bld' = [bld EXCEPT ![t].pc = "done"]
                /\ builtOK' = [builtOK EXCEPT ![b.lang] = builtOK[b.lang] \/ b.clean]
                /\ UNCHANGED faults
           ELSE IF BuildSkips(path)
           THEN /\ bld' = [bld EXCEPT ![t] = NextItem(b)]
                /\ UNCHANGED <<builtOK, faults>>
           ELSE \/ /\ bld' = [bld EXCEPT ![t].pc = "open", ![t].synth = TRUE,
                                          ![t].tmp = TRUE]
                   /\ UNCHANGED <<builtOK, faults>>
                \/ \* c.save or sf.read raises: the except clause skips the item
                   /\ CanFail
                   /\ faults' = faults + 1
                   /\ bld' = [bld EXCEPT ![t] =
                                 SkipFailed([b EXCEPT !.synth = TRUE, !.tmp = TRUE])]
                   /\ UNCHANGED builtOK
                \/ \* tempfile.NamedTemporaryFile raises outside the try
                   /\ CanFail
                   /\ faults' = faults + 1
                   /\ bld' = [bld EXCEPT ![t].pc = "raised", ![t].clean = FALSE]
                   /\ UNCHANGED builtOK
    /\ UNCHANGED <<nPhrases, files, fg, calls>>
    /\ UNCHANGED notCache

\* line 60, sf.write(path, data, sr): the file is created or truncated
BuildWriteOpen(t) ==
    /\ bld[t].pc = "open"
    /\ LET b == bld[t]
           path == PathOf(b.lang, b.i, b.v)
       IN  \/ /\ files' = [files EXCEPT ![path] = "partial"]
              /\ bld' = [u \in Threads |->
                           IF u = t THEN [b EXCEPT !.pc = "close"]
                           ELSE IF bld[u].pc = "close"
                                   /\ PathOf(bld[u].lang, bld[u].i, bld[u].v) = path
                                THEN [bld[u] EXCEPT !.clobbered = TRUE]
                                ELSE bld[u]]
              /\ UNCHANGED faults
           \/ \* the file cannot be opened for writing: the item is skipped
              /\ CanFail
              /\ faults' = faults + 1
              /\ bld' = [bld EXCEPT ![t] = SkipFailed(b)]
              /\ UNCHANGED files
    /\ UNCHANGED <<nPhrases, fg, builtOK, calls>>
    /\ UNCHANGED notCache

\* line 60, sf.write returns: the data is written and the file closed
BuildWriteClose(t) ==
    /\ bld[t].pc = "close"
    /\ LET b == bld[t]
           path == PathOf(b.lang, b.i, b.v)
       IN  \/ /\ files' = [files EXCEPT ![path] =
                              IF b.clobbered /\ OtherWriter(t, path) THEN "partial" ELSE "full"]
              /\ bld' = [bld EXCEPT ![t] = [NextItem(b) EXCEPT !.wrote = TRUE]]
              /\ UNCHANGED faults
           \/ \* the write stops half way: the except clause removes only tmp
              /\ CanFail
              /\ faults' = faults + 1
              /\ bld' = [bld EXCEPT ![t] = SkipFailed(b)]
              /\ UNCHANGED files
    /\ UNCHANGED <<nPhrases, fg, builtOK, calls>>
    /\ UNCHANGED notCache

\* main.py lines 49-55: the warm-up thread runs build_giggle_cache('hi')
BgStart ==
    /\ bld["bg"].pc = "idle"
    /\ bld' = [bld EXCEPT !["bg"] = StartBuild("hi")]
    /\ UNCHANGED <<nPhrases, files, fg, builtOK, faults, calls>>
    /\ UNCHANGED notCache

\* ---- play_giggle (tts.py) and play_random_giggle (giggle_cache.py) ----

\* len(giggle_types[...]) for the emotion, giggle_types["happy"] by default
GigglePhraseCount(emotion) ==
    IF emotion \in {"tender", "sarcastic", "confused"} THEN 3 ELSE 4

\* num_giggles = random.randint(2, 4) if emotion in ["excited", "happy"]
\*               else random.randint(1, 2)
NumGiggles(emotion) == IF emotion \in {"excited", "happy"} THEN 2..4 ELSE 1..2

Min(a, b) == IF a < b THEN a ELSE b

\* the warm-up thread's build_giggle_cache('hi') has returned and no item of
\* it failed
WarmUpComplete == bld["bg"].pc = "done" /\ bld["bg"].clean

NewCall(op, lang) ==
    [NoCall EXCEPT !.op = op, !.lang = lang,
                   !.hadEntry = \E path \in CandidatePaths(lang) : files[path] = "full",
                   !.emptyAtCall = (Existing(lang) = {}),
                   !.afterWarmUp = WarmUpComplete]

\* the foreground call returns to its caller
Returns(f) == [f EXCEPT !.pc = "idle", !.result = "returned"]

PrgRaiseUncaught(f) ==
    [f EXCEPT !.pc = "idle", !.prgRaised = TRUE, !.result = "raised"]

\* an exception leaves play_random_giggle: play_giggle catches it (lines
\* 645-646) and goes on to live synthesis; a direct caller receives it
PrgRaise(f) ==
    IF f.op = "play_giggle"
    THEN [f EXCEPT !.pc = "pg_live", !.prgRaised = TRUE]
    ELSE [f EXCEPT !.pc = "idle", !.prgRaised = TRUE, !.result = "raised"]

\* tts.py lines 608-643: the phrases and the sequence are chosen, then
\* play_random_giggle(lang) is called
PlayGiggleCall ==
    /\ fg.pc = "idle"
    /\ calls < MaxCalls
    /\ \E lang \in Langs, emotion \in Emotions :
         \E num_giggles \in NumGiggles(emotion) :
            fg' = [NewCall("play_giggle", lang) EXCEPT
                      !.pc = "prg_enter",
                      !.seqLeft = Min(num_giggles, GigglePhraseCount(emotion))]
    /\ calls' = calls + 1
    /\ UNCHANGED <<nPhrases, files, bld, builtOK, faults>>
    /\ UNCHANGED notCache

\* play_random_giggle(lang) called on its own
PlayRandomGiggleCall ==
    /\ fg.pc = "idle"
    /\ calls < MaxCalls
    /\ \E lang \in Langs :
         fg' = [NewCall("play_random_giggle", lang) EXCEPT !.pc = "prg_enter"]
    /\ calls' = calls + 1
    /\ UNCHANGED <<nPhrases, files, bld, builtOK, faults>>
    /\ UNCHANGED notCache

\* build_giggle_cache(lang) called on its own
BuildCall ==
    /\ fg.pc = "idle"
    /\ calls < MaxCalls
    /\ \E lang \in Langs :
         /\ fg' = [NewCall("build_giggle_cache", lang) EXCEPT !.pc = "build"]
         /\ bld' = [bld EXCEPT !["fg"] = StartBuild(lang)]
    /\ calls' = calls + 1
    /\ UNCHANGED <<nPhrases, files, builtOK, faults>>
    /\ UNCHANGED notCache

\* the build called on its own returns or raises to its caller
BuildReturn ==
    /\ fg.pc = "build"
    /\ bld["fg"].pc \in {"done", "raised"}
    /\ fg' = [fg EXCEPT !.pc = "idle", !.built = TRUE,
                        !.result = IF bld["fg"].pc = "done" THEN "returned" ELSE "raised"]
    /\ UNCHANGED <<nPhrases, files, bld, builtOK, faults, calls>>
    /\ UNCHANGED notCache

\* giggle_cache.py lines 70-79: the unpacking, the first lookup, and either
\* the choice of an existing path or the call of the build
PrgEnter ==
    /\ fg.pc = "prg_enter"
    /\ IF UnpackRaises(nPhrases)
       THEN /\ fg' = PrgRaise(fg)
            /\ UNCHANGED bld
       ELSE IF Existing(fg.lang) # {}
       THEN /\ \E path \in Existing(fg.lang) :
                 fg' = [fg EXCEPT !.pc = "prg_play", !.path = path]
            /\ UNCHANGED bld
       ELSE /\ fg' = [fg EXCEPT !.pc = "prg_build", !.built = TRUE]
            /\ bld' = [bld EXCEPT !["fg"] = StartBuild(fg.lang)]
    /\ UNCHANGED <<nPhrases, files, builtOK, faults, calls>>
    /\ UNCHANGED notCache

\* lines 80-83 and 101: the lookup after the build (an exception of the
\* build leaves existing empty)
PrgAfterBuild ==
    /\ fg.pc = "prg_build"
    /\ bld["fg"].pc \in {"done", "raised"}
    /\ LET existing == IF bld["fg"].pc = "raised" THEN {} ELSE Existing(fg.lang)
       IN  IF existing = {}
           THEN fg' = [fg EXCEPT !.pc = "prg_fallback"]
           ELSE \E path \in existing : fg' = [fg EXCEPT !.pc = "prg_play", !.path = path]
    /\ UNCHANGED <<nPhrases, files, bld, builtOK, faults, calls>>
    /\ UNCHANGED notCache

\* lines 84-99: the fixed phrase is synthesized, decoded and played, and the
\* temporary file removed (93-96); any failure ends the call silently (98-99),
\* with the temporary file left behind if it had been made (87-88)
PrgFallback ==
    /\ fg.pc = "prg_fallback"
    /\ \/ /\ fg' = Returns([fg EXCEPT !.played = "fallback"])
          /\ UNCHANGED faults
       \/ /\ CanFail
          /\ faults' = faults + 1
          /\ \E left \in BOOLEAN : fg' = Returns([fg EXCEPT !.tmpLeft = left])
    /\ UNCHANGED <<nPhrases, files, bld, builtOK, calls>>
    /\ UNCHANGED notCache

\* lines 102-107: the chosen file is read and played.  A file that is not
\* completely written either fails to decode or yields the part written.
PrgPlay ==
    /\ fg.pc = "prg_play"
    /\ LET f == [fg EXCEPT !.readState = files[fg.path]]
       IN  \/ /\ files[fg.path] = "full"
              /\ fg' = Returns([f EXCEPT !.played = "cache"])
              /\ UNCHANGED faults
           \/ /\ files[fg.path] = "partial"
              /\ \/ fg' = Returns([f EXCEPT !.played = "partial"])
                 \/ fg' = Returns(f)
              /\ UNCHANGED faults
           \/ \* sf.read or playback raises: except ... pass
              /\ CanFail
              /\ faults' = faults + 1
              /\ fg' = Returns(f)
    /\ UNCHANGED <<nPhrases, files, bld, builtOK, calls>>
    /\ UNCHANGED notCache

\* tts.py lines 648-652: one phrase of the sequence is synthesized live
\* (speak_async); its exception is swallowed
PlayGiggleLive ==
    /\ fg.pc = "pg_live"
    /\ LET f == [fg EXCEPT !.seqLeft = fg.seqLeft - 1, !.live = fg.live + 1]
           g == IF f.seqLeft = 0 THEN Returns(f) ELSE f
       IN  \/ /\ fg' = [g EXCEPT !.played = "live"]
              /\ UNCHANGED faults
           \/ /\ CanFail
              /\ faults' = faults + 1
              /\ fg' = g
    /\ UNCHANGED <<nPhrases, files, bld, builtOK, calls>>
    /\ UNCHANGED notCache

BuildStep(t) ==
    \/ BuildCheck(t)
    \/ BuildWriteOpen(t)
    \/ BuildWriteClose(t)

CacheNext ==
    \/ BgStart
    \/ \E t \in Threads : BuildStep(t)
    \/ PlayGiggleCall
    \/ PlayRandomGiggleCall
    \/ BuildCall
    \/ BuildReturn
    \/ PrgEnter
    \/ PrgAfterBuild
    \/ PrgFallback
    \/ PrgPlay
    \/ PlayGiggleLive

\* the calls of the main thread alone: the warm-up thread was never started
\* (main.py lines 49-55 swallow a failure to import or start it)
ForegroundNext ==
    \/ BuildStep("fg")
    \/ PlayGiggleCall
    \/ PlayRandomGiggleCall
    \/ BuildCall
    \/ BuildReturn
    \/ PrgEnter
    \/ PrgAfterBuild
    \/ PrgFallback
    \/ PrgPlay
    \/ PlayGiggleLive

-----------------------------------------------------------------------------
(* speak and speak_async of tts.py                                         *)

VOICE_MAP ==
    [l \in {"en", "hi", "hinglish"} |->
       IF l = "en" THEN "en-US-JennyNeural" ELSE "hi-IN-SwaraNeural"]

\* ---- create_emotional_ssml: the markup as the sequence of its elements ----

\* an opening tag with its attributes (pairs of name and value), a closing
\* tag, the text
Open(tag, attrs) == [kind |-> "open", tag |-> tag, attrs |-> attrs]

Close(tag) == [kind |-> "close", tag |-> tag, attrs |-> {}]

TextNode(text) == [kind |-> "text", tag |-> text, attrs |-> {}]

\* emotion_styles, lines 500-509: rate in percent, pitch in Hz, volume in
\* tenths of a dB; an attribute the string does not carry is absent
emotion_styles ==
    [e \in {"happy", "sad", "angry", "excited", "tender", "playful", "neutral", "flirty"} |->
       CASE e = "happy"   -> {<<"rate", 8>>, <<"pitch", 2>>, <<"volume", 10>>}
         [] e = "sad"     -> {<<"rate", -5>>, <<"pitch", -1>>, <<"volume", -20>>}
         [] e = "angry"   -> {<<"rate", 5>>, <<"pitch", 3>>, <<"volume", 20>>}
         [] e = "excited" -> {<<"rate", 12>>, <<"pitch", 4>>, <<"volume", 10>>}
         [] e = "tender"  -> {<<"rate", -3>>, <<"pitch", -2>>, <<"volume", -10>>}
         [] e = "playful" -> {<<"rate", 6>>, <<"pitch", 1>>}
         [] e = "neutral" -> {<<"rate", 2>>}
         [] e = "flirty"  -> {<<"rate", 4>>, <<"pitch", 1>>, <<"volume", 5>>}]

\* '<prosody volume="-8dB">', line 515
WhisperAttrs == {<<"volume", -80>>}

StyleStartPlain(emotion, effect) ==
    <<Open("prosody", DictGet(emotion_styles, emotion, emotion_styles["neutral"]))>>

\* lines 511-515
StyleStart(emotion, effect) ==
    <<Open("prosody", DictGet(emotion_styles, emotion, emotion_styles["neutral"]))>>
        \o (IF effect = "whisper" THEN <<Open("prosody", WhisperAttrs)>> ELSE <<>>)

\* lines 517-519
StyleEnd(effect) ==
    <<Close("prosody")>> \o (IF effect = "whisper" THEN <<Close("prosody")>> ELSE <<>>)

create_emotional_ssml(text, voice_name, emotion, effect) ==
    <<Open("speak", {<<"version", 1>>}), Open("voice", {<<"name", voice_name>>})>>
        \o StyleStart(emotion, effect)
        \o <<TextNode(text)>>
        \o StyleEnd(effect)
        \o <<Close("voice"), Close("speak")>>

\* languages a caller passes; "fr" stands for a tag outside VOICE_MAP
SpeakLangs == {"en", "hi", "hinglish", "fr"}

Effects == {"none", "whisper", "giggle"}

\* what the caller passes as text: a string, or None
TextKinds == {"str", "None"}

\* failures that leave speak_async as an exception
RaisingFailures == {"text", "tmp", "provider", "decode", "playback"}

\* failures a post-processing stage absorbs in its own except clause
StageFailures == {"breath", "overlay"}

NoSpeak ==
    [pc |-> "idle", text |-> "str", lang |-> "hi", emotion |-> "neutral",
     effect |-> "none", voice |-> "none", console |-> {}, failed |-> {},
     stages |-> <<>>, synthCalls |-> 0, tmp |-> FALSE, played |-> FALSE,
     sent |-> <<>>, data |-> <<>>, received |-> <<>>, result |-> "none"]

SpeakInit ==
    /\ CONSOLE_ECHO \in BOOLEAN
    /\ sp = NoSpeak

SpeakIdle ==
    /\ CONSOLE_ECHO = FALSE
    /\ sp = NoSpeak

\* lines 588-598: the console echo (a failing transliteration prints the
\* line without it)
SpeakCall ==
    /\ sp.pc = "idle"
    /\ \E text \in TextKinds, lang \in SpeakLangs, emotion \in Emotions,
          effect \in Effects :
         sp' = [NoSpeak EXCEPT !.pc = "prepare", !.text = text, !.lang = lang,
                               !.emotion = emotion, !.effect = effect,
                               !.console = IF CONSOLE_ECHO THEN {"echo"} ELSE {}]
    /\ UNCHANGED CONSOLE_ECHO
    /\ UNCHANGED notSpeak

SpeakExceptLinesNoFallback(echo) == {"error"}

\* lines 602-606: the lines the except clause of speak prints
SpeakExceptLines(echo) == {"error"} \cup (IF echo THEN {} ELSE {"fallback"})

\* an exception leaves speak_async: the finally clause unlinks the temporary
\* file, the except clause of speak prints and speak returns
SpeakRaise(s, failure) ==
    [s EXCEPT !.pc = "idle", !.failed = s.failed \cup {failure}, !.tmp = FALSE,
              !.console = s.console \cup SpeakExceptLines(CONSOLE_ECHO),
              !.result = "returned"]

\* lines 531-560: voice, text embellishment, markup, Communicate, temp file.
\* re.sub in add_breathing_pauses raises on a text that is None.  Lines
\* 552-556: an edge-tts whose Communicate takes no input_type raises
\* TypeError, and the embellished text is sent without markup.
SpeakPrepare ==
    /\ sp.pc = "prepare"
    /\ LET voice_name == DictGet(VOICE_MAP, sp.lang, VOICE_MAP["hi"])
           s == [sp EXCEPT !.voice = voice_name]
           ssml == create_emotional_ssml("processed_text", voice_name, sp.emotion, sp.effect)
       IN  IF sp.text = "None"
           THEN sp' = SpeakRaise(s, "text")
           ELSE \/ \E sent \in {ssml, <<TextNode("processed_text")>>} :
                     sp' = [s EXCEPT !.pc = "synth", !.tmp = TRUE, !.sent = sent]
                \/ \E sent \in {ssml, <<TextNode("processed_text")>>} :
                     sp' = SpeakRaise([s EXCEPT !.sent = sent], "tmp")
    /\ UNCHANGED CONSOLE_ECHO
    /\ UNCHANGED notSpeak

ProviderFailedRetries(s) == [s EXCEPT !.pc = "synth"]

\* communicate.save raises: nothing in speak_async catches it before the
\* finally clause, and speak's except clause ends the request
ProviderFailed(s) == SpeakRaise(s, "provider")

\* line 563: await communicate.save(temp_path), the one provider request
SpeakSynth ==
    /\ sp.pc = "synth"
    /\ LET s == [sp EXCEPT !.synthCalls = sp.synthCalls + 1]
       IN  \/ sp' = [s EXCEPT !.pc = "decode"]
           \/ sp' = ProviderFailed(s)
    /\ UNCHANGED CONSOLE_ECHO
    /\ UNCHANGED notSpeak

\* line 566: sf.read(temp_path)
SpeakDecode ==
    /\ sp.pc = "decode"
    /\ \/ \E n \in 1..MaxLen : sp' = [sp EXCEPT !.pc = "breath", !.data = Tone(n, 1)]
       \/ sp' = SpeakRaise(sp, "decode")
    /\ UNCHANGED CONSOLE_ECHO
    /\ UNCHANGED notSpeak

StageFailedRaises(s, stage, next) == SpeakRaise([s EXCEPT !.received = s.data], stage)

\* the except clause of a stage (lines 79-81, 322-324): it returns the
\* audio_data it was called with, and speak_async goes on at next
StageFailed(s, stage, next) ==
    [s EXCEPT !.pc = next, !.failed = s.failed \cup {stage}, !.received = s.data]

\* lines 569-572: add_breathing_sounds, which returns its input when it fails
SpeakBreath ==
    /\ sp.pc = "breath"
    /\ \/ sp' = [sp EXCEPT !.pc = "overlay", !.stages = Append(sp.stages, "breath"),
                           !.received = sp.data]
       \/ sp' = StageFailed(sp, "breath", "overlay")
    /\ UNCHANGED CONSOLE_ECHO
    /\ UNCHANGED notSpeak

\* line 575: add_emotional_sounds, which returns its input when it fails
SpeakOverlay ==
    /\ sp.pc = "overlay"
    /\ \/ \E draw \in BOOLEAN, duration10 \in LaughDurations :
              sp' = [sp EXCEPT !.pc = "play", !.stages = Append(sp.stages, "overlay"),
                               !.received = sp.data,
                               !.data = add_emotional_sounds(sp.data, SampleRate, sp.emotion,
                                                             draw, duration10)]
       \/ sp' = StageFailed(sp, "overlay", "play")
    /\ UNCHANGED CONSOLE_ECHO
    /\ UNCHANGED notSpeak

\* lines 578-586: blocking playback, then the finally clause
SpeakPlay ==
    /\ sp.pc = "play"
    /\ \/ sp' = [sp EXCEPT !.pc = "idle", !.played = TRUE, !.tmp = FALSE,
                           !.result = "returned"]
       \/ sp' = SpeakRaise(sp, "playback")
    /\ UNCHANGED CONSOLE_ECHO
    /\ UNCHANGED notSpeak

SpeakNext ==
    \/ SpeakCall
    \/ SpeakPrepare
    \/ SpeakSynth
    \/ SpeakDecode
    \/ SpeakBreath
    \/ SpeakOverlay
    \/ SpeakPlay

-----------------------------------------------------------------------------
(* The turn loop of main.py.  speak and play_giggle are calls that return  *)
(* normally; a failure inside them is recorded in coreFailed.              *)

\* detect_language_from_text of a non-empty utterance
DetectedLangs == {"hinglish", "en"}

\* detect_intent, with the keyword shortcuts of lines 158-185 and the
\* personality command of lines 104-115 as turn kinds of their own
TurnKinds ==
    {"personality", "open_chrome", "open_notepad", "play_music", "shutdown",
     "shortcut", "search_file", "chat"}

\* listen(timeout=6) for the confirmation: "" on a timeout
Confirmations == {"", "yes", "no"}

NoTurn ==
    [pc |-> "greet", ret |-> "none", lang |-> "hinglish", kind |-> "none",
     effect |-> "none", coreFailed |-> FALSE, playing |-> FALSE,
     confirm |-> "none", shutdownIssued |-> FALSE, left |-> 0,
     woke |-> FALSE, said |-> "none"]

LoopInit ==
    /\ lp = NoTurn
    /\ warm = "none"

LoopIdle ==
    /\ lp = [NoTurn EXCEPT !.pc = "off"]
    /\ warm = "none"

LoopOnErrorStops(l) == [l EXCEPT !.pc = "stopped"]

\* lines 219-221: except Exception ... continue
LoopOnError(l) == [l EXCEPT !.pc = "listen"]

\* speak(...) is called; the loop goes on at ret when it returns
CallSpeak(l, ret) == [l EXCEPT !.pc = "speak", !.ret = ret]

\* lines 43-47: the greeting
LoopGreet ==
    /\ lp.pc = "greet"
    /\ lp' = CallSpeak(lp, "warm")
    /\ UNCHANGED warm
    /\ UNCHANGED notLoop

\* lines 49-55: the warm-up thread is started
LoopWarm ==
    /\ lp.pc = "warm"
    /\ lp' = [lp EXCEPT !.pc = "listen"]
    /\ warm' = "running"
    /\ UNCHANGED notLoop

\* the warm-up thread: build_giggle_cache('hi') returns, or an exception ends
\* the daemon thread
WarmStep ==
    /\ warm = "running"
    /\ \/ /\ warm' = "done"
          /\ UNCHANGED lp
       \/ /\ warm' = "died"
          /\ lp' = [lp EXCEPT !.coreFailed = TRUE]
    /\ UNCHANGED notLoop

StartPlaybackNoWait(l) == [l EXCEPT !.pc = l.ret, !.playing = TRUE]

\* sd.play(data, sr) followed by sd.wait() (tts.py 578-579, giggle_cache.py
\* 91-92 and 104-105): the calling thread stays in the call while the audio
\* plays
StartPlayback(l) == [l EXCEPT !.pc = "playing", !.playing = TRUE]

\* speak: synthesis and post-processing, then playback starts; or a failure
\* that speak absorbs and reports as text
LoopSpeak ==
    /\ lp.pc = "speak"
    /\ \/ lp' = StartPlayback(lp)
       \/ lp' = [lp EXCEPT !.pc = lp.ret, !.coreFailed = TRUE]
    /\ UNCHANGED warm
    /\ UNCHANGED notLoop

\* sd.wait() returns (or playback fails): the call returns to the loop
LoopPlaybackDone ==
    /\ lp.pc = "playing"
    /\ \/ lp' = [lp EXCEPT !.pc = lp.ret, !.playing = FALSE]
       \/ lp' = [lp EXCEPT !.pc = lp.ret, !.playing = FALSE, !.coreFailed = TRUE]
    /\ UNCHANGED warm
    /\ UNCHANGED notLoop

\* lines 59-63: listen(), the empty result, the wake word
LoopListen ==
    /\ lp.pc = "listen"
    /\ LET l == [lp EXCEPT !.coreFailed = FALSE, !.kind = "none", !.effect = "none",
                           !.confirm = "none", !.shutdownIssued = FALSE,
                           !.woke = FALSE, !.said = "none"]
       IN  \/ lp' = l
           \/ lp' = LoopOnError(l)
           \/ \E lang \in DetectedLangs :
                 lp' = [l EXCEPT !.pc = "ack", !.lang = lang, !.woke = TRUE]
    /\ UNCHANGED warm
    /\ UNCHANGED notLoop

\* lines 65-75: the acknowledgement
LoopAck ==
    /\ lp.pc = "ack"
    /\ lp' = CallSpeak(lp, "listen_cmd")
    /\ UNCHANGED warm
    /\ UNCHANGED notLoop

\* lines 77-130: the command, its language, intent, answer and effect
LoopListenCmd ==
    /\ lp.pc = "listen_cmd"
    /\ \/ lp' = [lp EXCEPT !.pc = "listen"]
       \/ lp' = LoopOnError(lp)
       \/ \E lang \in DetectedLangs, kind \in TurnKinds, effect \in Effects :
            lp' = [lp EXCEPT !.pc = kind, !.lang = lang, !.kind = kind,
                              !.effect = IF kind = "chat" THEN effect ELSE "none"]
    /\ UNCHANGED warm
    /\ UNCHANGED notLoop

\* lines 104-115: a mode word is found and confirmed, or the turn just ends
LoopPersonality ==
    /\ lp.pc = "personality"
    /\ \/ lp' = [lp EXCEPT !.pc = "listen"]
       \/ lp' = CallSpeak(lp, "listen")
    /\ UNCHANGED warm
    /\ UNCHANGED notLoop

\* lines 132-146: speak, then the skill
LoopAutomation ==
    /\ lp.pc \in {"open_chrome", "open_notepad", "play_music"}
    /\ lp' = CallSpeak(lp, "skill")
    /\ UNCHANGED warm
    /\ UNCHANGED notLoop

\* the skill returns or raises; media_play_pause is called inside a try
LoopSkill ==
    /\ lp.pc = "skill"
    /\ \/ lp' = [lp EXCEPT !.pc = "listen"]
       \/ /\ lp.kind # "play_music"
          /\ lp' = LoopOnError(lp)
    /\ UNCHANGED warm
    /\ UNCHANGED notLoop

\* lines 158-185: a keyword shortcut runs its skill, then speaks
LoopShortcut ==
    /\ lp.pc = "shortcut"
    /\ \/ lp' = CallSpeak(lp, "listen")
       \/ lp' = LoopOnError(lp)
    /\ UNCHANGED warm
    /\ UNCHANGED notLoop

\* line 148: the confirmation question
LoopShutdownAsk ==
    /\ lp.pc = "shutdown"
    /\ lp' = CallSpeak(lp, "confirm")
    /\ UNCHANGED warm
    /\ UNCHANGED notLoop

ConfirmedUnlessNo(confirm) == confirm # "no"

\* line 150: confirm and ("yes" in confirm.lower() or the Hindi yes in it)
Confirmed(confirm) == confirm = "yes"

\* lines 149-154: listen(timeout=6) and the test of the confirmation
LoopShutdownConfirm ==
    /\ lp.pc = "confirm"
    /\ \/ \E confirm \in Confirmations :
            lp' = CallSpeak([lp EXCEPT !.confirm = confirm,
                                      !.said = IF Confirmed(confirm)
                                               THEN "Shutting down now." ELSE "Cancelled."],
                            IF Confirmed(confirm) THEN "do_shutdown" ELSE "listen")
       \/ lp' = LoopOnError(lp)
    /\ UNCHANGED warm
    /\ UNCHANGED notLoop

\* line 152: os.system("shutdown /s /t 1")
LoopShutdown ==
    /\ lp.pc = "do_shutdown"
    /\ lp' = [lp EXCEPT !.pc = "listen", !.shutdownIssued = TRUE]
    /\ UNCHANGED warm
    /\ UNCHANGED notLoop

\* lines 186-200: the search and the spoken results (at most three)
LoopSearch ==
    /\ lp.pc = "search_file"
    /\ \/ \E n \in 0..3 :
            lp' = CallSpeak([lp EXCEPT !.left = n], IF n = 0 THEN "listen" ELSE "results")
       \/ lp' = LoopOnError(lp)
    /\ UNCHANGED warm
    /\ UNCHANGED notLoop

LoopSearchResult ==
    /\ lp.pc = "results"
    /\ lp' = CallSpeak([lp EXCEPT !.left = lp.left - 1],
                       IF lp.left = 1 THEN "listen" ELSE "results")
    /\ UNCHANGED warm
    /\ UNCHANGED notLoop

\* lines 203-209: play_giggle before the answer; it returns normally and a
\* failure inside it is absorbed
LoopGiggle ==
    /\ lp.pc = "chat"
    /\ IF lp.effect = "giggle"
       THEN \/ lp' = StartPlayback([lp EXCEPT !.ret = "answer"])
            \/ lp' = [lp EXCEPT !.pc = "answer", !.coreFailed = TRUE]
       ELSE lp' = [lp EXCEPT !.pc = "answer"]
    /\ UNCHANGED warm
    /\ UNCHANGED notLoop

\* lines 211-218: the answer is spoken and remembered
LoopAnswer ==
    /\ lp.pc = "answer"
    /\ lp' = CallSpeak(lp, "listen")
    /\ UNCHANGED warm
    /\ UNCHANGED notLoop

MainStep ==
    \/ LoopGreet
    \/ LoopWarm
    \/ LoopSpeak
    \/ LoopPlaybackDone
    \/ LoopListen
    \/ LoopAck
    \/ LoopListenCmd
    \/ LoopPersonality
    \/ LoopAutomation
    \/ LoopSkill
    \/ LoopShortcut
    \/ LoopShutdownAsk
    \/ LoopShutdownConfirm
    \/ LoopShutdown
    \/ LoopSearch
    \/ LoopSearchResult
    \/ LoopGiggle
    \/ LoopAnswer

LoopNext ==
    \/ MainStep
    \/ WarmStep

-----------------------------------------------------------------------------
(* Specifications *)

InitEffects == FxInit /\ BsIdle /\ CacheIdle /\ SpeakIdle /\ LoopIdle

\* the stage calls of tts.py
SpecEffects == InitEffects /\ [][FxNext]_vars

InitBreath == FxIdle /\ BsInit /\ CacheIdle /\ SpeakIdle /\ LoopIdle

\* one call of add_breathing_sounds
SpecBreath == InitBreath /\ [][BsNext]_vars

InitCache == FxIdle /\ BsIdle /\ CacheInit /\ SpeakIdle /\ LoopIdle

\* the giggle cache with the warm-up thread and the foreground calls
SpecCache == InitCache /\ [][CacheNext]_vars

SpecForeground == InitCache /\ [][ForegroundNext]_vars

InitSpeak == FxIdle /\ BsIdle /\ CacheIdle /\ SpeakInit /\ LoopIdle

\* calls of speak
SpecSpeak == InitSpeak /\ [][SpeakNext]_vars

InitLoop == FxIdle /\ BsIdle /\ CacheIdle /\ SpeakIdle /\ LoopInit

\* the turn loop with the warm-up thread
SpecLoop == InitLoop /\ [][LoopNext]_vars

\* the main thread keeps running: every call it makes returns (listen has a
\* timeout, playback is finite), so its next step is eventually taken
FairLoop == SpecLoop /\ WF_vars(MainStep)

\* the giggle cache is the part with shared state and concurrency
Spec == SpecCache

-----------------------------------------------------------------------------
(* Claims *)

\* C7: the loop never stops, and after a failure inside speak, play_giggle
\* or the cache build the loop eventually listens for the next utterance.
C7_LoopContinues ==
    /\ [](lp.pc # "stopped")
    /\ (lp.coreFailed ~> lp.pc = "listen")

C7_Witness ==
    /\ lp.pc = "listen"
    /\ lp.coreFailed
    /\ lp.kind = "chat"
    /\ lp.effect = "giggle"


TextLines == {"echo", "fallback"}

\* C1 as claimed: speak returns normally, and after any failure (a stage
\* failure included) the reply text has been printed.
C1_TextAfterAnyFailure ==
    /\ sp.result # "raised"
    /\ (sp.result = "returned" /\ sp.failed # {}) => sp.console \cap TextLines # {}

\* C1 amended: speak returns normally, and after a failure that ends
\* speak_async (provider, decoding, playback, temporary file, text) the reply
\* text has been printed; a failing stage is skipped and the utterance played.
C1_TextAfterRaisingFailure ==
    /\ sp.result # "raised"
    /\ (sp.result = "returned" /\ sp.failed \cap RaisingFailures # {})
           => sp.console \cap TextLines # {}
    /\ (sp.result = "returned" /\ sp.failed \cap RaisingFailures = {}) => sp.played

C1_Witness ==
    /\ sp.result = "returned"
    /\ ~CONSOLE_ECHO
    /\ sp.failed = {"provider"}
    /\ sp.console = {"error", "fallback"}
    /\ ~sp.played


LookupSites == {"audio_modification", "text_modifiers", "emotional_sounds", "laughter"}

\* C8: at every lookup site the profile obtained is the emotion's own profile
\* for a recognized id and the neutral profile for any other id, and the
\* lookup does not fail.
C8_LookupTotal ==
    \A site \in DOMAIN fxProfile :
        /\ site \in LookupSites
        /\ ~Raised(fxProfile[site])
        /\ fxEmotion \in EmotionIds => fxProfile[site] = EMOTION_PARAMS[fxEmotion]
        /\ fxEmotion \notin EmotionIds => fxProfile[site] = EMOTION_PARAMS["neutral"]

C8_Witness ==
    /\ fxOp = "add_emotional_sounds"
    /\ fxEmotion \in UnknownIds
    /\ DOMAIN fxProfile = {"emotional_sounds", "laughter"}
    /\ fxProfile["laughter"] = EMOTION_PARAMS["neutral"]

\* C9: the waveform add_breathing_sounds returns carries at most 3 breaths,
\* and any two of them start at least 2 x samplerate samples apart.
C9_BreathLimit ==
    bsPc = "done" =>
        /\ Cardinality(bsApplied) <= 3
        /\ \A p \in bsApplied : \A q \in bsApplied :
               p < q => q - p >= 2 * SampleRate

C9_Witness ==
    /\ bsPc = "done"
    /\ Len(bsPositions) > 3
    /\ Cardinality(bsApplied) = 3

\* C10: shift_pitch by 0 semitones and change_speed by factor 1.0 return a
\* waveform of the same length with the same sample at every index.
C10_Identity ==
    /\ (fxOp = "shift_pitch" /\ fxArg = 0) => fxOut = fxAudio
    /\ (fxOp = "change_speed" /\ fxArg = 100) => fxOut = fxAudio

C10_Witness ==
    /\ fxOp = "shift_pitch"
    /\ fxArg = 0
    /\ Len(fxAudio) = MaxLen
    /\ fxAudio[1] # fxAudio[2]
    /\ fxOut = fxAudio

\* C2: no exception of the cache lookup, the provider, decoding or playback
\* leaves play_giggle, for any language and emotion.
C2_PlayGiggleNeverRaises ==
    fg.op = "play_giggle" => fg.result # "raised"

C2_Witness ==
    /\ fg.op = "play_giggle"
    /\ fg.result = "returned"
    /\ fg.prgRaised
    /\ fg.played = "none"
    /\ faults > 0

\* C3: a play_giggle that starts when a persisted entry exists for its
\* language makes no live synthesis call, whatever the number of phrases.
C3_PrefersCache ==
    (fg.op = "play_giggle" /\ fg.hadEntry) => (fg.live = 0 /\ fg.pc # "pg_live")

\* C4: play_random_giggle called when no entry exists for the language does
\* not raise and, when no collaborator fails, ends with audio played.
C4_EmptyCachePlays ==
    (fg.op = "play_random_giggle" /\ fg.emptyAtCall) =>
        /\ fg.result # "raised"
        /\ (fg.result = "returned" /\ faults = 0) => fg.played \in {"cache", "fallback"}

\* C5: a build that starts after a build of the same language completed with
\* no failed item synthesizes nothing and writes no file.
C5_BuildIdempotent ==
    \A t \in Threads :
        bld[t].second =>
            /\ ~bld[t].synth
            /\ ~bld[t].wrote
            /\ bld[t].pc \in {"check", "done"}

C5_Witness ==
    \E t \in Threads :
        /\ bld[t].second
        /\ bld[t].pc = "done"
        /\ nPhrases = MaxPhrases
        /\ \A path \in CandidatePaths(bld[t].lang) : files[path] = "full"

\* C6: with the warm-up build and the foreground lookup interleaved and no
\* collaborator failing, every file the lookup reads is completely written.
C6_NoPartialRead ==
    faults = 0 => fg.readState # "partial"

Abs(x) == IF x < 0 THEN -x ELSE x

\* C11 as claimed: after +12 then -12 semitones the length differs from the
\* input length L by at most one sample per 1000 samples of L.
C11_RoundTripPerMille ==
    fxOp = "shift_pitch_round_trip" =>
        1000 * Abs(Len(fxOut) - Len(fxAudio)) <= Len(fxAudio)

\* C11 amended: after +12 then -12 semitones the length is 2 * floor(L / 2):
\* L for an even L, one sample less for an odd L.
C11_RoundTripLength ==
    fxOp = "shift_pitch_round_trip" =>
        /\ Len(fxOut) = 2 * (Len(fxAudio) \div 2)
        /\ Abs(Len(fxOut) - Len(fxAudio)) <= 1

C11_Witness ==
    /\ fxOp = "shift_pitch_round_trip"
    /\ Len(fxAudio) = 3
    /\ Len(fxOut) = 2
\* C12 as claimed: for emotion "happy" some draw of the overlay stage gives an
\* output longer than the waveform it received and some draw gives an output
\* that is not longer.
C12_BothOutcomes ==
    (fxOp = "add_emotional_sounds" /\ fxEmotion = "happy") =>
        /\ \E draw \in BOOLEAN, d \in LaughDurations :
              Len(add_emotional_sounds(fxAudio, SampleRate, "happy", draw, d)) > Len(fxAudio)
        /\ \E draw \in BOOLEAN, d \in LaughDurations :
              Len(add_emotional_sounds(fxAudio, SampleRate, "happy", draw, d)) <= Len(fxAudio)

\* C12 amended: for emotion "happy" the output of the overlay stage is always
\* longer than the waveform it received (the giggle is appended whatever the
\* draw), and the run with the laugh is longer than the run without it.
C12_HappyAlwaysLonger ==
    (fxOp = "add_emotional_sounds" /\ fxEmotion = "happy") =>
        /\ Len(fxOut) > Len(fxAudio)
        /\ \A d \in LaughDurations :
              Len(add_emotional_sounds(fxAudio, SampleRate, "happy", TRUE, d))
                  > Len(add_emotional_sounds(fxAudio, SampleRate, "happy", FALSE, d))

C12_Witness ==
    /\ fxOp = "add_emotional_sounds"
    /\ fxEmotion = "happy"
    /\ fxArg = 0
    /\ Len(fxAudio) = MaxLen
    /\ Len(fxOut) > Len(fxAudio)
\* the markup m carries a non-zero delta of one of the named attributes
HasDelta(m, names) ==
    \E k \in 1..Len(m) : \E a \in m[k].attrs : a[1] \in names /\ a[2] # 0

\* C13: for language "en" and emotion "neutral" the English voice is
\* selected, what is sent to the provider carries no rate or pitch delta, no
\* pitch or speed stage runs on the waveform, and the waveform played is
\* not empty.
C13_EnglishNeutralUnmodified ==
    (sp.lang = "en" /\ sp.emotion = "neutral" /\ sp.sent # <<>>) =>
        /\ sp.voice = "en-US-JennyNeural"
        /\ ~HasDelta(sp.sent, {"rate", "pitch"})
        /\ \A k \in 1..Len(sp.stages) : sp.stages[k] \notin {"pitch_shift", "change_speed"}
        /\ sp.played => Len(sp.data) > 0

RECURSIVE Balanced(_, _)
\* every element opened in m is closed in reverse order of opening
Balanced(m, stack) ==
    IF m = <<>> THEN stack = <<>>
    ELSE LET e == Head(m)
         IN  CASE e.kind = "open"  -> Balanced(Tail(m), <<e.tag>> \o stack)
               [] e.kind = "close" -> /\ stack # <<>>
                                      /\ Head(stack) = e.tag
                                      /\ Balanced(Tail(m), Tail(stack))
               [] OTHER            -> Balanced(Tail(m), stack)

\* m without its elements at i and j, i < j
Without(m, i, j) ==
    SubSeq(m, 1, i - 1) \o SubSeq(m, i + 1, j - 1) \o SubSeq(m, j + 1, Len(m))

\* C14: the markup built with effect whisper is the markup built without it
\* plus one prosody element that only lowers the volume, opened right inside
\* the emotion prosody element and closed right before that element closes;
\* both markups close every element in reverse order of opening.
C14_WhisperNesting ==
    (sp.effect = "whisper" /\ Len(sp.sent) > 1) =>
        LET wh == sp.sent
            plain == create_emotional_ssml("processed_text", sp.voice, sp.emotion, "none")
        IN  /\ Balanced(wh, <<>>)
            /\ Balanced(plain, <<>>)
            /\ \E i \in 2..Len(wh), j \in 2..(Len(wh) - 1) :
                  /\ i < j
                  /\ wh[i].kind = "open" /\ wh[i].tag = "prosody"
                  /\ \E v \in -200..-1 : wh[i].attrs = {<<"volume", v>>}
                  /\ wh[i - 1].kind = "open" /\ wh[i - 1].tag = "prosody"
                  /\ wh[j] = Close("prosody")
                  /\ wh[j + 1] = Close("prosody")
                  /\ Balanced(SubSeq(wh, i + 1, j - 1), <<>>)
                  /\ Without(wh, i, j) = plain

C14_Witness ==
    /\ sp.pc = "synth"
    /\ sp.effect = "whisper"
    /\ sp.emotion = "happy"
    /\ sp.lang = "en"
    /\ Len(sp.sent) = 9

\* C15: the waveform handed to playback went through the stages in the
\* order breath, overlay, pitch shift, speed change, the pitch shift for
\* every profile with pitch_shift # 0 and the speed change for every profile
\* with speed_factor # 1.0.
C15_StagesInOrder ==
    (sp.played /\ sp.failed = {}) =>
        LET params == EmotionGet(sp.emotion)
            ran == {sp.stages[k] : k \in 1..Len(sp.stages)}
        IN  /\ \A a \in 1..Len(sp.stages), b \in 1..Len(sp.stages) :
                  (sp.stages[a] = "overlay" /\ sp.stages[b] \in {"pitch_shift", "change_speed"})
                      => a < b
            /\ params.pitch_shift # 0 => "pitch_shift" \in ran
            /\ params.speed_factor # 100 => "change_speed" \in ran
\* a pause directive
IsBreak(x) == x \in {Break(150), Break(200), Break(300), Break(400)}

RECURSIVE StripPauses(_)
\* text without its pause directives and the blank put before each of them
StripPauses(text) ==
    IF text = <<>> THEN <<>>
    ELSE IF IsBreak(Head(text)) THEN StripPauses(Tail(text))
    ELSE IF Head(text) = Blank /\ Len(text) > 1 /\ IsBreak(text[2])
         THEN StripPauses(Tail(Tail(text)))
    ELSE <<Head(text)>> \o StripPauses(Tail(text))

RECURSIVE IsSubsequence(_, _)
IsSubsequence(a, b) ==
    IF a = <<>> THEN TRUE
    ELSE IF b = <<>> THEN FALSE
    ELSE IF Head(a) = Head(b) THEN IsSubsequence(Tail(a), Tail(b))
    ELSE IsSubsequence(a, Tail(b))

\* C16: the text add_breathing_pauses receives is a subsequence of the text
\* it returns, and the returned text without the pause directives and the
\* blanks inserted with them is the received text.
C16_PausesPreserveText ==
    fxOp = "add_breathing_pauses" =>
        /\ IsSubsequence(fxText, fxTextOut)
        /\ StripPauses(fxTextOut) = fxText

C16_Witness ==
    /\ fxOp = "add_breathing_pauses"
    /\ fxText = <<".", Blank, "w">>
    /\ fxTextOut = <<".", Blank, Break(150), Blank, Break(300), Blank, "w">>

\* C17: a play_random_giggle call that has ended, no collaborator having
\* failed, called the build only if no entry existed for the language,
\* played the fallback phrase only if none existed after that build, and
\* otherwise played one entry among those existing for the language.
C17_LookupProtocol ==
    (fg.op = "play_random_giggle" /\ fg.result # "none" /\ faults = 0) =>
        /\ fg.built => fg.emptyAtCall
        /\ fg.played = "fallback" => (fg.built /\ Existing(fg.lang) = {})
        /\ fg.played # "fallback" =>
              (fg.played = "cache" /\ fg.path \in Existing(fg.lang))

\* C18: a play_giggle called after the warm-up build completed with no
\* failed item, for a language the turn loop detects, calls no build and no
\* live synthesis and, when no collaborator fails, plays a persisted entry.
C18_WarmCacheServesLoop ==
    (fg.op = "play_giggle" /\ fg.afterWarmUp /\ fg.lang \in DetectedLangs) =>
        /\ ~fg.built
        /\ fg.live = 0
        /\ fg.pc \notin {"pg_live", "prg_fallback"}
        /\ (fg.result = "returned" /\ faults = 0) => fg.played = "cache"

\* C19: a build whose only failures are failed items (provider, decode or
\* write) does not raise, and when it has returned every path of its
\* language is on disk except at most one per failed item: the items after a
\* failed one were attempted and the files written before it are still there.
C19_FailedItemSkipped ==
    \A t \in Threads :
        /\ bld[t].failed = faults => bld[t].pc # "raised"
        /\ bld[t].pc = "done" =>
              Cardinality({path \in CandidatePaths(bld[t].lang) : files[path] = "absent"})
                  <= bld[t].failed

C19_Witness ==
    /\ bld["fg"].pc = "done"
    /\ bld["fg"].failed = 1
    /\ fg.op = "build_giggle_cache"
    /\ fg.result = "returned"
    /\ nPhrases = MaxPhrases
    /\ files[PathOf(fg.lang, 0, 0)] = "absent"
    /\ \A path \in CandidatePaths(fg.lang) \ {PathOf(fg.lang, 0, 0)} : files[path] = "full"

\* C20: no step removes a file of the cache, and no step writes to a file
\* that is completely written, also with the warm-up build and a foreground
\* build running at the same time.
C20_PersistedNeverRewritten ==
    [][\A path \in AllPaths :
          /\ files[path] # "absent" => files'[path] # "absent"
          /\ files[path] = "full" => files'[path] = "full"]_vars

\* C21: in speak, a post-processing stage that failed hands on exactly the
\* waveform it received, the next stage runs, and a request in which only
\* stages failed ends with the waveform played.
C21_FailedStagePassesInput ==
    /\ (sp.pc = "overlay" /\ "breath" \in sp.failed) => sp.data = sp.received
    /\ (sp.pc = "play" /\ "overlay" \in sp.failed) => sp.data = sp.received
    /\ (StageFailures \cap sp.failed # {}) => sp.pc \in {"overlay", "play", "idle"}
    /\ (sp.pc = "idle" /\ sp.failed # {} /\ sp.failed \subseteq StageFailures) =>
          /\ sp.played
          /\ "overlay" \in sp.failed => sp.data = sp.received

C21_Witness ==
    /\ sp.pc = "idle"
    /\ sp.failed = {"breath", "overlay"}
    /\ sp.played
    /\ sp.emotion = "happy"
    /\ Len(sp.data) = MaxLen
    /\ sp.data = sp.received

\* C22: a call that found more than three candidate positions carries a
\* breath at exactly three of them, and these are not the first three
\* candidates.
C22_SubsampledNotFirstThree ==
    (bsPc = "done" /\ ~bsRaised /\ Len(bsPositions) > 3) =>
        /\ Cardinality(bsApplied) = 3
        /\ bsApplied # {bsPositions[1], bsPositions[2], bsPositions[3]}

\* the symbols of tok stand next to each other somewhere in text
Contains(text, tok) ==
    \E i \in 0..(Len(text) - Len(tok)) : SubSeq(text, i + 1, i + Len(tok)) = tok

\* C23: when the draw succeeds, a punctuation token replaces the trailing
\* run of '.', '!', '?' of the text, and any other token is inserted into
\* the text, whatever the text.
C23_ModifierInserted ==
    (fxOp = "add_emotional_text_modifiers" /\ fxArg > 0) =>
        LET modifier == EmotionGet(fxEmotion).text_modifiers[fxArg]
        IN  IF modifier \in PunctuationModifiers
            THEN fxTextOut = RStrip(fxText, {".", "!", "?"}) \o TokenSyms(modifier)
            ELSE /\ Contains(fxTextOut, TokenSyms(modifier))
                 /\ fxTextOut # fxText

\* number of places of text that hold the symbol x
Count(text, x) == Cardinality({k \in 1..Len(text) : text[k] = x})

\* places of text where a blank follows '.', '!' or '?'
SentenceGaps(text) ==
    {k \in 1..(Len(text) - 1) : text[k] \in {".", "!", "?"} /\ text[k + 1] = Blank}

\* C24: the returned text holds one short-pause directive for every '.',
\* ',', '!' and '?' of the received text, and no more 150ms directives than
\* the received text has places where a blank follows '.', '!' or '?'.
C24_SentencePauseOnlyAtGaps ==
    fxOp = "add_breathing_pauses" =>
        /\ Count(fxTextOut, Break(300)) = Count(fxText, ".")
        /\ Count(fxTextOut, Break(200)) = Count(fxText, ",")
        /\ Count(fxTextOut, Break(400)) = Count(fxText, "!") + Count(fxText, "?")
        /\ Count(fxTextOut, Break(150)) <= Cardinality(SentenceGaps(fxText))

\* C25: a speak request calls the provider at most once, and a request whose
\* provider call failed has ended without playback, with the error line and
\* the text on the console.
C25_OneSynthesisAttempt ==
    /\ sp.synthCalls <= 1
    /\ "provider" \in sp.failed =>
          /\ sp.pc = "idle"
          /\ sp.result = "returned"
          /\ ~sp.played
          /\ "error" \in sp.console
          /\ sp.console \cap {"echo", "fallback"} # {}

C25_Witness ==
    /\ "provider" \in sp.failed
    /\ sp.synthCalls = 1
    /\ sp.pc = "idle"
    /\ sp.console = {"error", "fallback"}

\* C26: audio plays only while the main thread is inside the playback call;
\* where the loop calls listen nothing is playing, and no step of the
\* warm-up thread starts playback.
C26_NoListenWhilePlaying ==
    /\ lp.playing => lp.pc = "playing"
    /\ lp.pc \in {"listen", "listen_cmd", "confirm", "search_file"} => ~lp.playing

C26_Witness ==
    /\ lp.pc = "playing"
    /\ lp.playing
    /\ lp.kind = "chat"
    /\ lp.effect = "giggle"
    /\ lp.ret = "answer"
    /\ warm = "running"

\* C27: the output of add_emotional_sounds begins with the waveform it
\* received, unchanged; a profile with add_giggle adds int(0.2*sr) +
\* int(0.8*sr) samples, one with add_sigh int(0.3*sr) + int(1.2*sr), and
\* anything beyond that is there only for happy, playful, flirty and excited.
C27_OverlayOnlyAppends ==
    fxOp = "add_emotional_sounds" =>
        LET params == EmotionGet(fxEmotion)
            giggle == IF params.add_giggle
                      THEN IntDiv(2 * SampleRate, 10) + IntDiv(8 * SampleRate, 10) ELSE 0
            sigh == IF params.add_sigh
                    THEN IntDiv(3 * SampleRate, 10) + IntDiv(12 * SampleRate, 10) ELSE 0
            laugh == Len(fxOut) - Len(fxAudio) - giggle - sigh
        IN  /\ Len(fxOut) >= Len(fxAudio)
            /\ SubSeq(fxOut, 1, Len(fxAudio)) = fxAudio
            /\ laugh >= 0
            /\ laugh > 0 => fxEmotion \in {"happy", "playful", "flirty", "excited"}

C27_Witness ==
    /\ fxOp = "add_emotional_sounds"
    /\ fxEmotion = "sad"
    /\ Len(fxAudio) = MaxLen
    /\ \E k \in 1..MaxLen : fxAudio[k] # 0
    /\ Len(fxOut) = MaxLen + IntDiv(3 * SampleRate, 10) + IntDiv(12 * SampleRate, 10)

\* C28: a play_giggle that has returned with nothing played from the cache
\* path has attempted live synthesis.
C28_LiveFallbackWhenSilent ==
    (fg.op = "play_giggle" /\ fg.result = "returned" /\ fg.played = "none") =>
        fg.live > 0

\* C29: when speak, build_giggle_cache or play_random_giggle has returned,
\* no temporary file it made is left.
C29_NoTempFileLeft ==
    /\ sp.pc = "idle" => ~sp.tmp
    /\ \A t \in Threads :
          bld[t].pc \in {"done", "raised"} => (~bld[t].tmp /\ ~bld[t].orphaned)
    /\ fg.pc = "idle" => ~fg.tmpLeft

\* C30: the shutdown command has been issued only in a wake-word turn with
\* the shutdown intent and a confirmation that says yes; after any other
\* confirmation, or none, "Cancelled." is spoken and no command is issued.
C30_ShutdownOnlyConfirmed ==
    /\ lp.shutdownIssued =>
          (lp.woke /\ lp.kind = "shutdown" /\ lp.confirm = "yes")
    /\ lp.pc = "do_shutdown" =>
          (lp.woke /\ lp.kind = "shutdown" /\ lp.confirm = "yes")
    /\ lp.confirm \in {"", "no"} =>
          (lp.said = "Cancelled." /\ ~lp.shutdownIssued /\ lp.pc # "do_shutdown")

C30_Witness ==
    /\ lp.shutdownIssued
    /\ lp.confirm = "yes"
    /\ lp.kind = "shutdown"
    /\ lp.said = "Shutting down now."
    /\ lp.pc = "listen"
====
